---- MODULE Spec2Model ----
(***************************************************************************)
(* The offline image store of react-native-image-offline                   *)
(* (OfflineImageStore.js): the entry map, the handler registry, the        *)
(* downloads in flight, the restore/expiry sweep and clearStore, with      *)
(* AsyncStorage and the file system as the collaborators they call.        *)
(*                                                                         *)
(* JavaScript strings that the code takes apart (URIs, ids, hashes, file   *)
(* names) are sequences of one-character strings.  Time is in seconds;     *)
(* the clock advances in steps of TickStep, so Date.toString(), which      *)
(* drops the milliseconds, and new Date(string) are exact on every value   *)
(* the clock takes.                                                        *)
(***************************************************************************)
EXTENDS Integers, Sequences, FiniteSets, TLC

\* ------------------------------------------------------------------ bounds
\* subscribe + prefetch calls in one run
MaxRequests == 2
\* restore calls in one run
MaxRestores == 2
\* clearStore calls in one run
MaxClears == 1
\* unsubscribe calls in one run
MaxUnsubscribes == 1
\* clock steps in one run
MaxTicks == 1
\* calls of the application (subscribe, prefetch, unsubscribe, restore,
\* clearStore) and clock steps in one run, all together
MaxCalls == 5

\* ------------------------------------------------------- program constants
\* new OfflineImageStore('RN_Default_ImageStore', 259200)
DefaultName == "RN_Default_ImageStore"
DefaultTimeout == 259200

\* RNFetchBlob.fs.dirs.CacheDir
CacheDir == "CacheDir"

\* one step of the clock: as long as the default time to live
TickStep == DefaultTimeout

\* --------------------------------------------------------------- strings
\* 1-based index of the first c in s, 0 when there is none (indexOf: -1)
IndexOf(s, c) ==
  IF \E i \in 1..Len(s) : s[i] = c
    THEN CHOOSE i \in 1..Len(s) : s[i] = c /\ \A j \in 1..(i-1) : s[j] # c
    ELSE 0

\* 1-based index of the last c in s, 0 when there is none (lastIndexOf: -1)
LastIndexOf(s, c) ==
  IF \E i \in 1..Len(s) : s[i] = c
    THEN CHOOSE i \in 1..Len(s) : s[i] = c /\ \A j \in (i+1)..Len(s) : s[j] # c
    ELSE 0

\* s.substring(i) for the 0-based i = from - 1; a negative i counts as 0
Substring(s, from) ==
  IF from <= 1 THEN s ELSE SubSeq(s, from, Len(s))

\* s.split(c)[0]
SplitHead(s, c) ==
  IF IndexOf(s, c) = 0 THEN s ELSE SubSeq(s, 1, IndexOf(s, c) - 1)

\* crypto-js SHA1, as a string: collision-free on the model's strings
SHA1(s) == <<"#">> \o s

\* ---------------------------------------------------------------- inputs
NoId == << >>
uriA1 == <<"/", "a", ".", "p", "?", "1">>
uriA2 == <<"/", "a", ".", "p", "?", "2">>
uriB  == <<"/", "b">>

\* the props of an <OfflineImage>: source.uri, id, ignoreQueryString, reloadImage
MkProps(uri, id, iqs, reload) ==
  [source |-> [uri |-> uri], id |-> id, ignoreQueryString |-> iqs,
   reloadImage |-> reload]

Props ==
  { MkProps(uriA1, NoId, TRUE, FALSE),
    MkProps(uriA1, NoId, TRUE, TRUE),
    MkProps(uriA2, NoId, TRUE, FALSE),
    MkProps(uriB, <<"l">>, FALSE, FALSE) }

Uris == { p.source.uri : p \in Props }

\* the mounted <OfflineImage> components: each subscribes its own handler with
\* its own props; the handler hx throws when it is called
Components ==
  { [handler |-> "h1", props |-> MkProps(uriA1, NoId, TRUE, FALSE)],
    [handler |-> "h2", props |-> MkProps(uriA1, NoId, TRUE, TRUE)],
    [handler |-> "h3", props |-> MkProps(uriA2, NoId, TRUE, FALSE)],
    [handler |-> "hx", props |-> MkProps(uriA1, NoId, TRUE, FALSE)] }

Handlers == { c.handler : c \in Components }
Throws(h) == h = "hx"

\* the props the application prefetches
Prefetched ==
  { MkProps(uriA1, NoId, TRUE, FALSE), MkProps(uriB, <<"l">>, FALSE, FALSE) }

Undefined == "undefined"
MkConfig(name, timeout, debug) ==
  [name |-> name, imageRemoveTimeout |-> timeout, debugMode |-> debug]

\* restore's config; imageRemoveTimeout 0 stands for the key being absent
Configs ==
  { MkConfig(Undefined, 0, FALSE),
    MkConfig("", TickStep \div 2, TRUE),
    MkConfig(DefaultName, 0, FALSE),
    MkConfig("S2", TickStep \div 2, TRUE) }

StoreNames == { c.name : c \in Configs } \ {Undefined, ""}

\* ----------------------------------------------------------------- state
VARIABLES
  store,      \* this.store: name, storeImageTimeout, debugMode
  entries,    \* this.entries: hash -> [createdOn, basePath, localUriPath]
  handlers,   \* this.handlers: uri -> handlers in registration order
  storage,    \* AsyncStorage: key -> << >> (no item) or <<the stored entry map>>
  files,      \* the files on the device
  now,        \* the clock, in seconds
  downloads,  \* _downloadImage calls in flight, in the order they started
  rst,        \* the restore in progress
  clr,        \* the clearStore in progress
  calls,      \* every handler call so far: [handler, uri, path]
  written,    \* every file a fetch has written so far
  stat        \* counters of the calls and outcomes so far

vars ==
  <<store, entries, handlers, storage, files, now, downloads, rst, clr, calls,
    written, stat>>

EmptyMap == [k \in {} |-> k]

\* getBaseDir
getBaseDir(name) == <<CacheDir, name>>
BaseDir == getBaseDir(store.name)

\* `${basePath}/${localUriPath}`
FilePath(basePath, localUriPath) == <<basePath, localUriPath>>

\* `@${this.store.name}:uris`
StorageKey(name) == <<"@", name, ":uris">>

\* _getEntryProps
getEntryProps(props) ==
  LET uri == props.source.uri
      path == SplitHead(Substring(uri, LastIndexOf(uri, "/")), "?")
      extension ==
        IF IndexOf(path, ".") = 0
          THEN <<".", "j", "p", "g">>
          ELSE Substring(path, LastIndexOf(path, "."))
      hash ==
        IF props.id # NoId
          THEN props.id
          ELSE SHA1(IF props.ignoreQueryString THEN SplitHead(uri, "?") ELSE uri)
  IN [hash |-> hash, extension |-> extension]

HasEntry(hash) == hash \in DOMAIN entries

\* _getEntry: defined when HasEntry(hash)
getEntry(props) == entries[getEntryProps(props).hash]

\* getImageOfflinePath: << >> stands for undefined
getImageOfflinePath(props) ==
  IF /\ HasEntry(getEntryProps(props).hash)
     /\ getEntry(props).basePath = BaseDir
    THEN <<FilePath(getEntry(props).basePath, getEntry(props).localUriPath)>>
    ELSE << >>

\* _addTime(createdOn, storeImageTimeout) < new Date()
Expired(entry, timeout, date) == entry.createdOn + timeout < date

\* _getExpiredImages, with this.entries = map
getExpiredImages(map) ==
  { k \in DOMAIN map : Expired(map[k], store.storeImageTimeout, now) }

\* _addEntry stamping every download with a new date
addEntryRestamped(hash, localUriPath) ==
  [createdOn |-> now, basePath |-> BaseDir, localUriPath |-> localUriPath]

\* _addEntry
addEntry(hash, localUriPath) ==
  IF HasEntry(hash)
    THEN [entries[hash] EXCEPT !.basePath = BaseDir,
                               !.localUriPath = localUriPath]
    ELSE [createdOn |-> now, basePath |-> BaseDir, localUriPath |-> localUriPath]

\* the map with key k set to e
Put(map, k, e) ==
  [x \in DOMAIN map \cup {k} |-> IF x = k THEN e ELSE map[x]]

\* delete map[k]
Delete(map, k) == [x \in DOMAIN map \ {k} |-> map[x]]

\* Object.assign(map, other)
Assign(map, other) ==
  [x \in DOMAIN map \cup DOMAIN other |->
     IF x \in DOMAIN other THEN other[x] ELSE map[x]]

\* ---------------------------------------------------------------- notify
\* the handlers forEach reaches: all of them, or those up to the first that throws
Invoked(hs) ==
  IF \E i \in 1..Len(hs) : Throws(hs[i])
    THEN SubSeq(hs, 1, CHOOSE i \in 1..Len(hs) :
                         Throws(hs[i]) /\ \A j \in 1..(i-1) : ~Throws(hs[j]))
    ELSE hs

\* _notify throws when a handler does
NotifyThrows(hmap, uri) == \E i \in 1..Len(hmap[uri]) : Throws(hmap[uri][i])

\* a _notify that also reaches the handlers of the other URI that is the same
\* up to the query string
notifySameKey(hmap, uri, entry) ==
  LET others == { v \in DOMAIN hmap \ {uri} :
                    SplitHead(v, "?") = SplitHead(uri, "?") }
      hs == Invoked(hmap[uri] \o
                    (IF others = {} THEN << >>
                                    ELSE hmap[CHOOSE v \in others : TRUE]))
  IN [i \in 1..Len(hs) |->
        [handler |-> hs[i], uri |-> uri,
         path |-> FilePath(entry.basePath, entry.localUriPath)]]

\* _notify with this.handlers = hmap: the calls it adds
notify(hmap, uri, entry) ==
  LET hs == Invoked(hmap[uri])
  IN [i \in 1..Len(hs) |->
        [handler |-> hs[i], uri |-> uri,
         path |-> FilePath(entry.basePath, entry.localUriPath)]]

\* Object.freeze(instance): the instance's own properties cannot be assigned
Frozen == TRUE

\* no restore in progress; pc tells how the last one ended
RstIdle(pc) ==
  [pc |-> pc, pending |-> {}, date |-> 0, key |-> << >>, blob |-> EmptyMap]

\* the item of a sequence at index i removed
RemoveAt(seq, i) == SubSeq(seq, 1, i - 1) \o SubSeq(seq, i + 1, Len(seq))

\* the application may make one more call, or the clock one more step
Budget ==
  stat.requests + stat.restores + stat.clears + stat.unsubscribes
    + (now \div TickStep) < MaxCalls

\* --------------------------------------------------------------- initial
Init ==
  /\ store = [name |-> DefaultName, storeImageTimeout |-> DefaultTimeout,
              debugMode |-> FALSE]
  /\ entries = EmptyMap
  /\ handlers = [u \in Uris |-> << >>]
  /\ storage = [k \in { StorageKey(n) : n \in StoreNames } |-> << >>]
  /\ files = {}
  /\ now = 0
  /\ downloads = << >>
  /\ rst = RstIdle("idle")
  /\ clr = [pc |-> "idle", dir |-> << >>]
  /\ calls = << >>
  /\ written = {}
  /\ stat = [requests |-> 0, restores |-> 0, clears |-> 0, unsubscribes |-> 0,
             misses |-> 0, failed |-> 0, added |-> 0, persisted |-> 0,
             completions |-> 0, cleared |-> 0]

\* a tick of the clock
Tick ==
  /\ now < MaxTicks * TickStep
  /\ Budget
  /\ now' = now + TickStep
  /\ UNCHANGED <<store, entries, handlers, storage, files, downloads, rst, clr,
                 calls, written, stat>>

\* ------------------------------------------------------------ downloads
\* _downloadImage(props), up to the fetch it starts; cause is the branch of
\* _getImage that called it
downloadImage(props, cause) ==
  LET ep == getEntryProps(props)
      filename == ep.hash \o ep.extension
  IN [props |-> props, hash |-> ep.hash, filename |-> filename,
      path |-> FilePath(BaseDir, filename), cause |-> cause, phase |-> "fetch",
      key |-> << >>, blob |-> EmptyMap, entry |-> EmptyMap]

\* _getImage(props) with this.handlers = hmap
getImage(hmap, props) ==
  LET hash == getEntryProps(props).hash
      uri == props.source.uri
      valid == HasEntry(hash) /\ entries[hash].basePath = BaseDir
      cause == IF valid THEN "reload" ELSE IF HasEntry(hash) THEN "stale" ELSE "miss"
      starts == IF valid THEN ~NotifyThrows(hmap, uri) /\ props.reloadImage ELSE TRUE
  IN /\ calls' = IF valid THEN calls \o notify(hmap, uri, entries[hash]) ELSE calls
     /\ downloads' = IF starts
                       THEN Append(downloads, downloadImage(props, cause))
                       ELSE downloads

\* the counters after one more subscribe or prefetch of props
Requested(props) ==
  [stat EXCEPT !.requests = @ + 1,
               !.misses = IF HasEntry(getEntryProps(props).hash) THEN @ ELSE @ + 1]

\* subscribe(handler, props)
subscribe(h, props) ==
  /\ stat.requests < MaxRequests
  /\ Budget
  /\ handlers' = [handlers EXCEPT ![props.source.uri] = Append(@, h)]
  /\ getImage(handlers', props)
  /\ stat' = Requested(props)
  /\ UNCHANGED <<store, entries, storage, files, now, rst, clr, written>>

\* prefetch(props)
prefetch(props) ==
  /\ stat.requests < MaxRequests
  /\ Budget
  /\ getImage(handlers, props)
  /\ stat' = Requested(props)
  /\ UNCHANGED <<store, entries, handlers, storage, files, now, rst, clr, written>>

\* an unsubscribe that removes the given handler alone
unsubscribeGivenHandler(h, props) ==
  /\ \E i \in 1..Len(handlers[props.source.uri]) :
        handlers[props.source.uri][i] = h
  /\ stat.unsubscribes < MaxUnsubscribes
  /\ Budget
  /\ handlers' = [handlers EXCEPT ![props.source.uri] =
                    SelectSeq(@, LAMBDA x : x # h)]
  /\ stat' = [stat EXCEPT !.unsubscribes = @ + 1]
  /\ UNCHANGED <<store, entries, storage, files, now, downloads, rst, clr, calls,
                 written>>

\* unsubscribe(handler, { source }), called by a component that unmounts; once
\* its handler is registered no more the call changes nothing
unsubscribe(h, props) ==
  /\ \E i \in 1..Len(handlers[props.source.uri]) :
        handlers[props.source.uri][i] = h
  /\ stat.unsubscribes < MaxUnsubscribes
  /\ Budget
  /\ handlers' = [handlers EXCEPT ![props.source.uri] = << >>]
  /\ stat' = [stat EXCEPT !.unsubscribes = @ + 1]
  /\ UNCHANGED <<store, entries, storage, files, now, downloads, rst, clr, calls,
                 written>>

\* the fetch of download i resolves: the .then of _downloadImage, up to the
\* setItem that _updateOfflineStore awaits
FetchSuccess(i) ==
  LET d == downloads[i]
      entry == addEntry(d.hash, d.filename)
  IN /\ d.phase = "fetch"
     /\ files' = files \cup {d.path}
     /\ written' = written \cup {d.path}
     /\ entries' = Put(entries, d.hash, entry)
     /\ downloads' = [downloads EXCEPT ![i] =
                        [d EXCEPT !.phase = "setItem",
                                  !.key = StorageKey(store.name),
                                  !.blob = entries',
                                  !.entry = entry]]
     /\ stat' = [stat EXCEPT !.added = @ + 1]
     /\ UNCHANGED <<store, handlers, storage, now, rst, clr, calls>>

\* a .catch of _downloadImage that records the entry all the same
FetchFailureRecorded(i) ==
  /\ downloads[i].phase = "fetch"
  /\ downloads' = RemoveAt(downloads, i)
  /\ entries' = Put(entries, downloads[i].hash,
                    addEntry(downloads[i].hash, downloads[i].filename))
  /\ stat' = [stat EXCEPT !.failed = @ + 1]
  /\ UNCHANGED <<store, handlers, storage, files, now, rst, clr, calls, written>>

\* the fetch of download i rejects: the .catch of _downloadImage
FetchFailure(i) ==
  /\ downloads[i].phase = "fetch"
  /\ downloads' = RemoveAt(downloads, i)
  /\ stat' = [stat EXCEPT !.failed = @ + 1]
  /\ UNCHANGED <<store, entries, handlers, storage, files, now, rst, clr, calls,
                 written>>

\* _updateOfflineStore after its await: setItem resolved
PersistSuccess(i) ==
  LET d == downloads[i]
  IN /\ d.phase = "setItem"
     /\ storage' = [storage EXCEPT ![d.key] = <<d.blob>>]
     /\ calls' = calls \o notify(handlers, d.props.source.uri, d.entry)
     /\ downloads' = RemoveAt(downloads, i)
     /\ stat' = [stat EXCEPT !.persisted = @ + 1]
     /\ UNCHANGED <<store, entries, handlers, files, now, rst, clr, written>>

\* _updateOfflineStore after its await: setItem rejected, the catch logs
PersistFailure(i) ==
  /\ downloads[i].phase = "setItem"
  /\ downloads' = RemoveAt(downloads, i)
  /\ UNCHANGED <<store, entries, handlers, storage, files, now, rst, clr, calls,
                 written, stat>>

\* --------------------------------------------------------------- restore
\* a restore that takes the timeout and the debug flag of config before it
\* looks at the name
restoreChecksNameLate(config) ==
  /\ rst.pc \in {"idle", "threw"}
  /\ stat.restores < MaxRestores
  /\ Budget
  /\ stat' = [stat EXCEPT !.restores = @ + 1]
  /\ store' =
       [name |-> IF config.name = Undefined \/ Len(config.name) = 0
                   THEN store.name ELSE config.name,
        storeImageTimeout |->
          IF config.imageRemoveTimeout # 0
            THEN config.imageRemoveTimeout
            ELSE store.storeImageTimeout,
        debugMode |-> store.debugMode \/ config.debugMode]
  /\ rst' = IF config.name = Undefined \/ Len(config.name) = 0
              THEN RstIdle("threw")
              ELSE [RstIdle("getItem") EXCEPT !.key = StorageKey(config.name)]
  /\ UNCHANGED <<entries, handlers, storage, files, now, downloads, clr, calls,
                 written>>

\* restore(config, onRestoreCompletion), up to the getItem it starts; one
\* restore runs at a time
restore(config) ==
  /\ rst.pc \in {"idle", "threw"}
  /\ stat.restores < MaxRestores
  /\ Budget
  /\ stat' = [stat EXCEPT !.restores = @ + 1]
  /\ IF config.name = Undefined \/ Len(config.name) = 0
       THEN /\ rst' = RstIdle("threw")
            /\ store' = store
       ELSE /\ store' =
                 [name |-> config.name,
                  storeImageTimeout |->
                    IF config.imageRemoveTimeout # 0
                      THEN config.imageRemoveTimeout
                      ELSE store.storeImageTimeout,
                  debugMode |-> store.debugMode \/ config.debugMode]
            /\ rst' = [RstIdle("getItem") EXCEPT !.key = StorageKey(config.name)]
  /\ UNCHANGED <<entries, handlers, storage, files, now, downloads, clr, calls,
                 written>>

\* _updateAsyncStorage(onRestoreCompletion), up to the setItem it starts
updateAsyncStorage(map) ==
  [RstIdle("setItem") EXCEPT !.key = StorageKey(store.name), !.blob = map,
                             !.date = rst.date]

\* a getItem callback that stops when AsyncStorage holds no item
RestoreLoadedNeedsItem ==
  LET uris == storage[rst.key]
      merged == IF uris = << >> THEN entries ELSE Assign(entries, uris[1])
      uriListToRemove == getExpiredImages(merged)
  IN /\ rst.pc = "getItem"
     /\ entries' = merged
     /\ IF uris = << >>
          THEN /\ rst' = RstIdle("idle")
               /\ stat' = stat
          ELSE IF uriListToRemove = {}
          THEN /\ rst' = RstIdle("idle")
               /\ stat' = [stat EXCEPT !.completions = @ + 1]
          ELSE /\ rst' = [rst EXCEPT
                            !.pc = "unlink",
                            !.date = now,
                            !.pending =
                              { [uri |-> k,
                                 path |-> FilePath(merged[k].basePath,
                                                   merged[k].localUriPath)] :
                                k \in uriListToRemove }]
               /\ stat' = stat
     /\ UNCHANGED <<store, handlers, storage, files, now, downloads, clr, calls,
                    written>>

\* a getItem callback whose _removeExpiredImages persists the map also when
\* nothing is expired
RestoreLoadedPersistsAlways ==
  LET uris == storage[rst.key]
      merged == IF uris = << >> THEN entries ELSE Assign(entries, uris[1])
      uriListToRemove == getExpiredImages(merged)
  IN /\ rst.pc = "getItem"
     /\ entries' = merged
     /\ rst' = IF uriListToRemove = {}
                THEN [RstIdle("setItem") EXCEPT !.key = StorageKey(store.name),
                                                !.blob = merged]
                ELSE [rst EXCEPT
                        !.pc = "unlink",
                        !.date = now,
                        !.pending =
                          { [uri |-> k,
                             path |-> FilePath(merged[k].basePath,
                                               merged[k].localUriPath)] :
                            k \in uriListToRemove }]
     /\ UNCHANGED <<store, handlers, storage, files, now, downloads, clr, calls,
                    written, stat>>

\* the getItem callback of restore, and _removeExpiredImages up to the unlinks
\* it starts
RestoreLoaded ==
  LET uris == storage[rst.key]
      merged == IF uris = << >> THEN entries ELSE Assign(entries, uris[1])
      uriListToRemove == getExpiredImages(merged)
  IN /\ rst.pc = "getItem"
     /\ entries' = merged
     /\ IF uriListToRemove = {}
          THEN /\ rst' = RstIdle("idle")
               /\ stat' = [stat EXCEPT !.completions = @ + 1]
          ELSE /\ rst' = [rst EXCEPT
                            !.pc = "unlink",
                            !.date = now,
                            !.pending =
                              { [uri |-> k,
                                 path |-> FilePath(merged[k].basePath,
                                                   merged[k].localUriPath)] :
                                k \in uriListToRemove }]
               /\ stat' = stat
     /\ UNCHANGED <<store, handlers, storage, files, now, downloads, clr, calls,
                    written>>

\* a sweep that goes on as soon as one unlink has settled
AfterUnlinkFirstSettled(u, map) == updateAsyncStorage(map)

\* what follows the settling of unlink u: Promise.all resolves with the last one
AfterUnlink(u, map) ==
  IF rst.pending = {u}
    THEN updateAsyncStorage(map)
    ELSE [rst EXCEPT !.pending = @ \ {u}]

\* the unlink of an expired image resolves: its .then deletes the entry
UnlinkSuccess(u) ==
  /\ rst.pc = "unlink"
  /\ u \in rst.pending
  /\ files' = files \ {u.path}
  /\ entries' = Delete(entries, u.uri)
  /\ rst' = AfterUnlink(u, entries')
  /\ UNCHANGED <<store, handlers, storage, now, downloads, clr, calls, written,
                 stat>>

\* the unlink of an expired image rejects: its .catch logs
UnlinkFailure(u) ==
  /\ rst.pc = "unlink"
  /\ u \in rst.pending
  /\ rst' = AfterUnlink(u, entries)
  /\ UNCHANGED <<store, entries, handlers, storage, files, now, downloads, clr,
                 calls, written, stat>>

\* the setItem callback of _updateAsyncStorage: it calls onRestoreCompletion
\* whether the write succeeded or not
SweepPersisted(ok) ==
  /\ rst.pc = "setItem"
  /\ storage' = IF ok THEN [storage EXCEPT ![rst.key] = <<rst.blob>>] ELSE storage
  /\ rst' = RstIdle("idle")
  /\ stat' = [stat EXCEPT !.completions = @ + 1]
  /\ UNCHANGED <<store, entries, handlers, files, now, downloads, clr, calls,
                 written>>

\* ------------------------------------------------------------ clearStore
\* clearStore(onRestoreCompletion), up to the unlink of the base directory
clearStore ==
  /\ clr.pc = "idle"
  /\ stat.clears < MaxClears
  /\ Budget
  /\ clr' = [pc |-> "unlink", dir |-> BaseDir]
  /\ stat' = [stat EXCEPT !.clears = @ + 1]
  /\ UNCHANGED <<store, entries, handlers, storage, files, now, downloads, rst,
                 calls, written>>

\* `this.entries = map`: a TypeError on the frozen instance, the map stays
AssignEntries(map) == IF Frozen THEN entries ELSE map

\* the unlink of the base directory resolves: `this.entries = {}` throws, the
\* .catch logs, and _updateAsyncStorage(onRestoreCompletion) is not reached:
\* nothing is written and the callback, counted in stat.cleared, is not called
ClearUnlinkSuccess ==
  /\ clr.pc = "unlink"
  /\ files' = { f \in files : f[1] # clr.dir }
  /\ entries' = AssignEntries(EmptyMap)
  /\ clr' = [pc |-> "idle", dir |-> << >>]
  /\ UNCHANGED <<store, handlers, storage, now, downloads, rst, calls, written,
                 stat>>

\* the unlink of the base directory rejects: the .catch logs and the callback
\* is not called
ClearUnlinkFailure ==
  /\ clr.pc = "unlink"
  /\ clr' = [pc |-> "idle", dir |-> << >>]
  /\ UNCHANGED <<store, entries, handlers, storage, files, now, downloads, rst,
                 calls, written, stat>>

Next ==
  \/ Tick
  \/ \E c \in Components : subscribe(c.handler, c.props)
  \/ \E p \in Prefetched : prefetch(p)
  \/ \E c \in Components : unsubscribe(c.handler, c.props)
  \/ \E i \in 1..Len(downloads) : FetchSuccess(i)
  \/ \E i \in 1..Len(downloads) : FetchFailure(i)
  \/ \E i \in 1..Len(downloads) : PersistSuccess(i)
  \/ \E i \in 1..Len(downloads) : PersistFailure(i)
  \/ \E c \in Configs : restore(c)
  \/ RestoreLoaded
  \/ \E u \in rst.pending : UnlinkSuccess(u)
  \/ \E u \in rst.pending : UnlinkFailure(u)
  \/ \E ok \in BOOLEAN : SweepPersisted(ok)
  \/ clearStore
  \/ ClearUnlinkSuccess
  \/ ClearUnlinkFailure

Spec == Init /\ [][Next]_vars

\* ---------------------------------------------------------------- claims
HashOf(props) == getEntryProps(props).hash

\* the entry of props is there and of the current base directory
Valid(props) == HasEntry(HashOf(props)) /\ getEntry(props).basePath = BaseDir

\* the calls handler h has received for uri
CallsOf(h, uri) ==
  { n \in 1..Len(calls) : calls[n].handler = h /\ calls[n].uri = uri }

\* one call of every handler of hs, in order, with the path of entry
AllCalls(hs, uri, entry) ==
  [n \in 1..Len(hs) |->
     [handler |-> hs[n], uri |-> uri,
      path |-> FilePath(entry.basePath, entry.localUriPath)]]

\* download i's fetch resolves in this step
FetchSucceeds(i) ==
  /\ downloads[i].phase = "fetch"
  /\ Len(downloads') = Len(downloads)
  /\ downloads'[i].phase = "setItem"

\* download i ends in this step, its write to AsyncStorage settled
PersistSettles(i) ==
  /\ downloads[i].phase = "setItem"
  /\ downloads' = RemoveAt(downloads, i)

\* the getItem callback of restore runs in this step
RestoreLoads == rst.pc = "getItem" /\ rst'.pc # "getItem"

\* C1: for every cache key at most one download (fetch and file write) is in
\* flight at any time: a request for a key whose download has not completed
\* starts no second fetch.
C1_OneDownloadPerKey ==
  \A i, j \in 1..Len(downloads) :
    (i # j /\ downloads[i].phase = "fetch" /\ downloads[j].phase = "fetch")
      => downloads[i].hash # downloads[j].hash

\* C2: when several handlers have subscribed for the same uncached URI before
\* any download completed, and every download and its write to AsyncStorage
\* succeeded, every registered handler has been called exactly once, all with
\* the same path.
C2_EachHandlerOnce ==
  \A u \in Uris :
    ( /\ Len(handlers[u]) >= 2
      /\ Len(handlers[u]) = stat.requests
      /\ stat.misses = stat.requests
      /\ stat.restores = 0 /\ stat.clears = 0 /\ stat.unsubscribes = 0
      /\ \A n \in 1..Len(handlers[u]) : ~Throws(handlers[u][n])
      /\ downloads = << >>
      /\ stat.failed = 0
      /\ stat.persisted = stat.added )
    => /\ \A n \in 1..Len(handlers[u]) :
            Cardinality(CallsOf(handlers[u][n], u)) = 1
       /\ \A m, n \in 1..Len(calls) : calls[m].path = calls[n].path

\* C3: when clearStore has deleted the base directory and finished, the entry
\* map is empty and getImageOfflinePath returns undefined for every props.
C3_ClearStoreEmpties ==
  [][ ClearUnlinkSuccess
        => /\ entries' = EmptyMap
           /\ \A p \in Props : getImageOfflinePath(p)' = << >> ]_vars

\* the date the sweep of the restore in progress compares with
SweepDate == IF rst.pc = "getItem" THEN now ELSE rst.date

\* C4: when restore's expiry sweep has completed (onRestoreCompletion is
\* called), no entry left in the map had createdOn + timeout < the sweep's
\* date, whether the deletion of its file succeeded or failed.
C4_SweepLeavesNoExpired ==
  [][ stat.completions' # stat.completions
        => \A k \in DOMAIN entries' :
             ~Expired(entries'[k], store.storeImageTimeout, SweepDate) ]_vars

\* C5: in every reachable state every entry of the map points at a file
\* (basePath/localUriPath) that a successfully completed download has written.
C5_EntriesPointAtWrittenFiles ==
  \A k \in DOMAIN entries :
    FilePath(entries[k].basePath, entries[k].localUriPath) \in written

\* C6: a download that fails leaves the entry map as it was, persists nothing,
\* calls no handler and starts no retry: the failed download is gone and every
\* other download in flight is as it was.
C6_FailedDownloadLeavesNoTrace ==
  [][ stat.failed' # stat.failed
        => /\ entries' = entries
           /\ storage' = storage
           /\ calls' = calls
           /\ files' = files
           /\ Len(downloads') = Len(downloads) - 1
           /\ \A j \in 1..Len(downloads') :
                \E i \in 1..Len(downloads) : downloads'[j] = downloads[i] ]_vars

\* a download has failed while the map holds an entry
C6_Witness == stat.failed >= 1 /\ stat.added >= 1 /\ entries # EmptyMap

\* C7: getImageOfflinePath returns undefined for every entry whose basePath is
\* not the current base directory, and a path it returns is of a file that a
\* download has written under the current base directory.
C7_PathOnlyOfCurrentBaseDir ==
  \A p \in Props :
    /\ (HasEntry(HashOf(p)) /\ getEntry(p).basePath # BaseDir)
         => getImageOfflinePath(p) = << >>
    /\ getImageOfflinePath(p) # << >>
         => /\ getImageOfflinePath(p)[1][1] = BaseDir
            /\ getImageOfflinePath(p)[1] \in written

\* C8: subscribe with reloadImage on a valid entry calls the handler at once
\* with the cached path and starts one download; when that download has
\* succeeded createdOn is as before, and when the download ends the handlers
\* registered for the URI are called once more.
C8_ReloadNotifiesTwice ==
  [][ /\ \A c \in Components :
           (c.props.reloadImage /\ Valid(c.props) /\ subscribe(c.handler, c.props))
             => /\ \E n \in (Len(calls) + 1)..Len(calls') :
                     calls'[n] =
                       [handler |-> c.handler, uri |-> c.props.source.uri,
                        path |-> getImageOfflinePath(c.props)[1]]
                /\ Len(downloads') = Len(downloads) + 1
      /\ \A i \in 1..Len(downloads) :
           (downloads[i].cause = "reload" /\ FetchSucceeds(i)
              /\ HasEntry(downloads[i].hash))
             => entries'[downloads[i].hash].createdOn
                  = entries[downloads[i].hash].createdOn
      /\ \A i \in 1..Len(downloads) :
           (downloads[i].cause = "reload" /\ PersistSettles(i))
             => \A n \in 1..Len(handlers[downloads[i].props.source.uri]) :
                  \E m \in (Len(calls) + 1)..Len(calls') :
                    calls'[m].handler
                      = handlers[downloads[i].props.source.uri][n] ]_vars

\* createdOn of every key that stays in the map is the same after the step
CreatedOnKept ==
  \A k \in DOMAIN entries \cap DOMAIN entries' :
    entries'[k].createdOn = entries[k].createdOn

\* a download that succeeds in this step sets basePath to the current base
\* directory, and createdOn to the date when the key had no entry
DownloadStamps ==
  \A i \in 1..Len(downloads) :
    FetchSucceeds(i)
      => /\ downloads[i].hash \in DOMAIN entries'
         /\ entries'[downloads[i].hash].basePath = BaseDir
         /\ ~HasEntry(downloads[i].hash)
              => entries'[downloads[i].hash].createdOn = now

\* C9 as stated: createdOn never changes for as long as the entry stays in the
\* map, and each successful download sets basePath to the current base
\* directory.
C9_CreatedOnNeverChanges == [][CreatedOnKept /\ DownloadStamps]_vars

\* C9 as amended: no step other than restore's load of the persisted entries
\* changes createdOn of an entry that stays in the map (no download does: not
\* a forced reload, not a re-download after a change of base directory), and
\* each successful download sets basePath to the current base directory.
C9_OnlyRestoreChangesCreatedOn ==
  [][(RestoreLoads \/ CreatedOnKept) /\ DownloadStamps]_vars

\* a key was downloaded under both base directories and its entry, now of the
\* second one, has kept the date of the first download
C9_Witness ==
  \E k \in DOMAIN entries :
    /\ entries[k].createdOn < now
    /\ entries[k].basePath = getBaseDir("S2")
    /\ FilePath(getBaseDir("S2"), entries[k].localUriPath) \in written
    /\ FilePath(getBaseDir(DefaultName), entries[k].localUriPath) \in written
    /\ stat.restores = 1

\* C10: when _notify runs for a URI, every handler registered for it is called,
\* in registration order, also when one of them throws.
C10_NotifyReachesEveryHandler ==
  [][ /\ \A i \in 1..Len(downloads) :
           PersistSuccess(i)
             => calls' = calls \o AllCalls(handlers[downloads[i].props.source.uri],
                                           downloads[i].props.source.uri,
                                           downloads[i].entry)
      /\ \A c \in Components :
           (Valid(c.props) /\ subscribe(c.handler, c.props))
             => calls' = calls \o AllCalls(handlers'[c.props.source.uri],
                                           c.props.source.uri,
                                           getEntry(c.props)) ]_vars

\* the handlers of a list
HandlersOf(hs) == { hs[n] : n \in 1..Len(hs) }

\* the calls this step adds
NewCalls == { calls'[n] : n \in (Len(calls) + 1)..Len(calls') }

\* C11: unsubscribe removes every handler registered for the URI, not only
\* the given one, and calls none; from then on no notification for that URI,
\* the completion of a download already in flight included, calls any handler
\* until a subscribe for that URI registers one: a step calls only handlers
\* that are registered for the URI after it, and only a subscribe makes an
\* empty list non-empty.
C11_UnsubscribeRemovesAll ==
  [][ /\ stat.unsubscribes' # stat.unsubscribes
           => /\ \E u \in Uris :
                   /\ handlers[u] # << >>
                   /\ handlers' = [handlers EXCEPT ![u] = << >>]
              /\ calls' = calls
      /\ \A c \in NewCalls : c.handler \in HandlersOf(handlers'[c.uri])
      /\ \A u \in Uris :
           (handlers[u] = << >> /\ handlers'[u] # << >>)
             => /\ stat.requests' = stat.requests + 1
                /\ Len(handlers'[u]) = 1 ]_vars

\* the only request was a subscribe for an uncached URI; its handler was
\* unsubscribed while the download was in flight, and the download has
\* completed and persisted without calling anyone
C11_Witness ==
  /\ stat.requests = 1 /\ stat.misses = 1
  /\ stat.unsubscribes = 1
  /\ stat.persisted = 1
  /\ calls = << >>
  /\ \A u \in Uris : handlers[u] = << >>

\* C12: restore with a missing or empty name throws and changes nothing: the
\* store's name, timeout and debug flag, the entry map, AsyncStorage and the
\* files are as before, no read of AsyncStorage and no sweep is started and
\* onRestoreCompletion is not called, then or later; a restore that does start
\* a read has a name that is neither missing nor empty.
C12_BadNameChangesNothing ==
  [][ /\ stat.restores' # stat.restores
           => /\ rst'.pc \in {"threw", "getItem"}
              /\ rst'.pc = "threw"
                   => /\ store' = store
                      /\ entries' = entries
                      /\ storage' = storage
                      /\ files' = files
                      /\ rst' = RstIdle("threw")
                      /\ stat.completions' = stat.completions
              /\ rst'.pc = "getItem"
                   => /\ store'.name \in StoreNames
                      /\ rst'.key = StorageKey(store'.name)
      /\ (rst.pc = "threw" /\ stat.restores' = stat.restores)
           => /\ rst' = rst
              /\ store' = store
              /\ stat.completions' = stat.completions ]_vars

\* a restore has thrown in a store that holds an entry and has its first
\* name, timeout and debug flag
C12_Witness ==
  /\ rst.pc = "threw"
  /\ stat.restores >= 1
  /\ entries # EmptyMap
  /\ store = [name |-> DefaultName, storeImageTimeout |-> DefaultTimeout,
              debugMode |-> FALSE]

\* the entry map AsyncStorage holds under key: none is an empty one
Persisted(key) == IF storage[key] = << >> THEN EmptyMap ELSE storage[key][1]

\* the entries of map that are not expired now
NotExpired(map) ==
  [k \in DOMAIN map \ getExpiredImages(map) |-> map[k]]

\* C13: restore replaces the entry map by the entries it loads: after the load
\* the map holds exactly the entries persisted under the configured name, none
\* that was only in memory, and when the restore completes with that step,
\* exactly those of them that are not expired.
C13_RestoreReplacesMap ==
  [][ RestoreLoads
        => /\ entries' = Persisted(rst.key)
           /\ stat.completions' # stat.completions
                => entries' = NotExpired(Persisted(rst.key)) ]_vars

\* onRestoreCompletion is called in this step
Completes == stat.completions' # stat.completions

\* the sweep of a restore goes on in order: it completes once, from the load
\* or from the settling of its setItem, the setItem starts when the last
\* unlink settles and writes the map as it is then, and nothing completes
\* when no restore is in progress
SweepInOrder ==
  /\ Completes
       => /\ stat.completions' = stat.completions + 1
          /\ rst.pc \in {"getItem", "setItem"}
          /\ rst' = RstIdle("idle")
  /\ (rst.pc = "setItem" /\ rst' # rst) => Completes
  /\ (rst.pc = "unlink" /\ rst' # rst)
       => /\ ~Completes
          /\ rst'.pc \in {"unlink", "setItem"}
          /\ rst'.pc = "setItem"
               => /\ Cardinality(rst.pending) = 1
                  /\ rst'.blob = entries'
                  /\ rst'.key = StorageKey(store.name)

\* C14 as stated: in every restore the map is persisted exactly once after
\* the sweep and onRestoreCompletion is called exactly once, after that
\* persist, when expired entries were found and when none were: every
\* completion is the settling of the sweep's setItem.
C14_PersistOnceThenCallback ==
  [][ /\ SweepInOrder
      /\ Completes => rst.pc = "setItem" ]_vars

\* C14 as amended: when the sweep found expired entries the map is persisted
\* once, after the last unlink has settled, and onRestoreCompletion is called
\* once, when that setItem has settled; when it found none, nothing is
\* persisted and onRestoreCompletion is called once, in the getItem callback.
C14_PersistOnlyAfterRemovals ==
  [][ /\ SweepInOrder
      /\ RestoreLoads
           => IF getExpiredImages(entries') = {}
                THEN Completes /\ storage' = storage
                ELSE rst'.pc = "unlink" /\ ~Completes ]_vars

\* of two restores one found the only entry expired, deleted it and persisted
\* the empty map, and the other one found nothing to remove; both completed
C14_Witness ==
  /\ stat.restores = 2 /\ stat.completions = 2
  /\ stat.added = 1
  /\ storage[StorageKey("S2")] = <<EmptyMap>>
  /\ store.name = DefaultName

\* C15: onRestoreCompletion is never called while an unlink of the sweep is
\* pending: every unlink settles on its own, by success or by failure, the
\* setItem starts with the settling of the last one, and no completion
\* happens before.
C15_CompletionAfterAllDeletions ==
  [][ /\ Completes => (rst.pc # "unlink" /\ rst.pending = {})
      /\ rst.pc = "unlink"
           => /\ rst.pending # {}
              /\ rst'.pc = "unlink"
                   => \/ rst' = rst
                      \/ \E u \in rst.pending :
                           /\ rst.pending # {u}
                           /\ rst' = [rst EXCEPT !.pending = @ \ {u}]
              /\ rst'.pc # "unlink"
                   => /\ rst'.pc = "setItem"
                      /\ \E u \in rst.pending : rst.pending = {u} ]_vars

\* one restore has completed after its sweep has deleted the files of two
\* expired entries
C15_Witness ==
  /\ stat.restores = 1 /\ stat.completions = 1
  /\ stat.clears = 0
  /\ Cardinality(written) = 2
  /\ \A f \in written : f[1] = getBaseDir(DefaultName)
  /\ files = {}
  /\ entries = EmptyMap

\* no download, restore or clearStore is in progress
Quiescent ==
  /\ downloads = << >>
  /\ rst.pc \in {"idle", "threw"}
  /\ clr.pc = "idle"

\* C16: when no write to AsyncStorage has failed (every entry added was
\* persisted, and no sweep has written: the clock has not moved, so nothing
\* has expired) and every download, sweep and write has completed, the map
\* stored under the key of the store's name equals the entry map.
C16_StorageMirrorsEntries ==
  (Quiescent /\ stat.persisted = stat.added /\ now = 0)
    => Persisted(StorageKey(store.name)) = entries

\* C17: every download that succeeds keeps its entry in the map and ends with
\* a call of every handler registered for its URI with the path of the entry,
\* also when the write to AsyncStorage that follows it fails (stated for
\* handler lists in which no handler throws).
C17_SuccessfulDownloadNotifies ==
  [][ \A i \in 1..Len(downloads) :
        /\ FetchSucceeds(i)
             => /\ downloads[i].hash \in DOMAIN entries'
                /\ entries'[downloads[i].hash] = downloads'[i].entry
        /\ ( /\ PersistSettles(i)
             /\ ~NotifyThrows(handlers, downloads[i].props.source.uri) )
             => /\ entries' = entries
                /\ calls' = calls \o AllCalls(handlers[downloads[i].props.source.uri],
                                              downloads[i].props.source.uri,
                                              downloads[i].entry) ]_vars

\* component c subscribes in this step
Subscribes(c) ==
  /\ stat.requests' = stat.requests + 1
  /\ handlers'[c.props.source.uri] = Append(handlers[c.props.source.uri], c.handler)

\* C18: subscribe without reloadImage for props whose entry is of the current
\* base directory calls the handlers registered for the URI, the new one
\* included, with the cached path and starts no download; subscribe for props
\* whose entry is of another base directory calls nobody and starts one
\* download of these props.
C18_SubscribeHitAndStale ==
  [][ \A c \in Components :
        Subscribes(c)
          => /\ (Valid(c.props) /\ ~c.props.reloadImage)
                  => /\ calls' = calls \o AllCalls(handlers'[c.props.source.uri],
                                                   c.props.source.uri,
                                                   getEntry(c.props))
                     /\ downloads' = downloads
             /\ (HasEntry(HashOf(c.props)) /\ ~Valid(c.props))
                  => /\ calls' = calls
                     /\ downloads' = Append(downloads, downloadImage(c.props, "stale")) ]_vars

\* C19: when restore, called with a valid name, finds no item in AsyncStorage
\* under the key of that name and the entry map is empty, the map stays empty,
\* no file is deleted, no unlink or write is started and onRestoreCompletion
\* is called once, in that step; nothing calls it again while no restore is
\* in progress.
C19_RestoreWithoutItem ==
  [][ /\ (RestoreLoads /\ storage[rst.key] = << >> /\ entries = EmptyMap)
           => /\ entries' = EmptyMap
              /\ files' = files
              /\ storage' = storage
              /\ rst' = RstIdle("idle")
              /\ stat.completions' = stat.completions + 1
      /\ rst.pc \in {"idle", "threw"} => ~Completes ]_vars

\* the one restore, to the name S2, has found no item, with no entry in
\* memory, and has completed
C19_Witness ==
  /\ stat.restores = 1 /\ stat.completions = 1
  /\ store.name = "S2"
  /\ rst.pc = "idle"
  /\ \A k \in DOMAIN storage : storage[k] = << >>
  /\ stat.added = 0
  /\ entries = EmptyMap

\* C20: every clearStore(onComplete) calls onComplete exactly once, whether
\* the unlink of the base directory resolves or rejects: when no clearStore is
\* in progress, onComplete has been called as often as clearStore.
C20_ClearStoreCallsOnComplete ==
  clr.pc = "idle" => stat.cleared = stat.clears

\* C21: handlers are registered and called by the exact URI, entries are kept
\* by cache key: a handler is only ever called with the URI its component
\* registered it under, and the end of a download started through props of
\* URI u calls handlers with u and the path of its entry alone, never a
\* handler registered under another URI of the same cache key.
C21_NotifiedByExactUri ==
  [][ /\ \A c \in NewCalls :
           \E k \in Components :
             k.handler = c.handler /\ k.props.source.uri = c.uri
      /\ \A i \in 1..Len(downloads) :
           PersistSettles(i)
             => \A c \in NewCalls :
                  /\ c.uri = downloads[i].props.source.uri
                  /\ c.handler \in HandlersOf(handlers[c.uri])
                  /\ c.path = FilePath(downloads[i].entry.basePath,
                                       downloads[i].entry.localUriPath) ]_vars

\* h1 is registered under /a.p?1 and h3 under /a.p?2, two URIs of one cache
\* key; a download has completed and persisted, and the only call so far is
\* the one of h1 with /a.p?1
C21_Witness ==
  /\ handlers[uriA1] = <<"h1">>
  /\ handlers[uriA2] = <<"h3">>
  /\ stat.restores = 0
  /\ stat.persisted >= 1
  /\ Len(calls) = 1
  /\ calls[1].handler = "h1" /\ calls[1].uri = uriA1
====
